---- MODULE Spec2Model ----
(***************************************************************************)
(* A model of sudoku.py: the validator (validate, is_solved), the          *)
(* propagator (eliminate, reduce_grid), the backtracking search (search)   *)
(* and the entry point solve with its conversions str_to_grid and          *)
(* grid_to_str.                                                            *)
(*                                                                         *)
(* A Python str is a sequence of one-character strings.  A grid (dict) is  *)
(* a function from the cell indices 0..80 to sets of digits; dicts live in *)
(* a heap and are named by their address, so that reduce_grid writing into *)
(* the dict it is given and grid.copy() making a new dict are both what    *)
(* the code does.  The order in which list(a_set) enumerates a set and the *)
(* order random.shuffle leaves are not fixed by the code: both are any     *)
(* permutation.                                                            *)
(***************************************************************************)
EXTENDS Integers, Sequences, FiniteSets

VARIABLES
    op,                  \* the entry point called: "solve", "validate", "is_solved"
    sudoku,              \* the argument: [type, chars]
    randomize_traversal, \* solve's second argument
    pc,                  \* position in the entry point
    heap,                \* the grids (dicts) allocated so far, by address
    stack,               \* the activation records of search, innermost last
    ret,                 \* the value the last search call returned
    max_depth,           \* the module-level counter
    out,                 \* the characters grid_to_str has joined so far
    outcome              \* what the entry point returned or raised

vars == <<op, sudoku, randomize_traversal, pc, heap, stack, ret, max_depth,
          out, outcome>>

----------------------------------------------------------------------------
(* Python values and conversions *)

Digits == <<"1", "2", "3", "4", "5", "6", "7", "8", "9">>

\* the characters of the literal '123456789' (s in '123456789', s one character)
ClueChars == {Digits[d] : d \in 1..9}

\* the characters str.isdigit accepts
DecimalChars == ClueChars \cup {"0"}

\* int(s) for a clue character
IntOf(s) == CHOOSE d \in 1..9 : Digits[d] = s

RECURSIVE StrOf(_)
\* str(n) for n >= 0
StrOf(n) ==
    LET d == IF n % 10 = 0 THEN "0" ELSE Digits[n % 10]
    IN  IF n < 10 THEN d ELSE StrOf(n \div 10) \o d

None == -1

\* "not x" for x a cell index or None
NotTruthy(x) == x = None \/ x = 0

Cells == 0..80

AllDigits == 1..9

Max(a, b) == IF a > b THEN a ELSE b

PyStr(chars) == [type |-> "str", chars |-> chars]

PyNone == [type |-> "NoneType", chars |-> <<>>]

PyInt == [type |-> "int", chars |-> <<>>]

----------------------------------------------------------------------------
(* get_square_indices and the adjacents table *)

SquareOffsets == <<0, 1, 2, 9, 10, 11, 18, 19, 20>>

get_square_indices(row, col) ==
    LET sq_row == row \div 3
        sq_col == col \div 3
        sq_start_ndx == (sq_row * 9 * 3) + (sq_col * 3)
    IN  [k \in 1..9 |-> sq_start_ndx + SquareOffsets[k]]

\* the elements of a sequence other than x, in order
Without(seq, x) == SelectSeq(seq, LAMBDA y : y # x)

adjacents ==
    [cell \in Cells |->
        LET row == cell \div 9
            col == cell % 9
            cells_in_row == Without([k \in 1..9 |-> row * 9 + (k - 1)], cell)
            cells_in_col == Without([k \in 1..9 |-> col + 9 * (k - 1)], cell)
            cells_in_sq  == Without(get_square_indices(row, col), cell)
        IN  <<cells_in_row, cells_in_col, cells_in_sq>>]

Range(seq) == {seq[k] : k \in 1..Len(seq)}

----------------------------------------------------------------------------
(* validate and is_solved *)

Ok == [raised |-> FALSE, template |-> "", args |-> <<>>]

Raise(template, args) == [raised |-> TRUE, template |-> template, args |-> args]

\* the number of characters of seq equal to s
Occurrences(seq, s) == Cardinality({l \in 1..Len(seq) : seq[l] = s})

\* sudoku[row*9:row*9+9]
RowSlice(chars, row) == [k \in 1..9 |-> chars[row * 9 + k]]

\* sudoku[col::9]
ColSlice(chars, col) == [k \in 1..9 |-> chars[col + 9 * (k - 1) + 1]]

\* ''.join(sudoku[x] for x in sq_indices)
SquareSlice(chars, row, col) ==
    LET sq_indices == get_square_indices(row, col)
    IN  [k \in 1..9 |-> chars[sq_indices[k] + 1]]

\* ValidateCell that looks at the column before the row
ValidateCell_ColFirst(chars, ndx) ==
    LET s == chars[ndx + 1]
        row == ndx \div 9
        col == ndx % 9
        row_occurrences == Occurrences(RowSlice(chars, row), s)
        col_occurrences == Occurrences(ColSlice(chars, col), s)
        sq_occurrences == Occurrences(SquareSlice(chars, row, col), s)
    IN  IF s \notin ClueChars THEN Ok
        ELSE IF col_occurrences > 1
             THEN Raise("{0} appears {1}x in col {2}",
                        <<s, StrOf(col_occurrences), StrOf(col + 1)>>)
        ELSE IF row_occurrences > 1
             THEN Raise("{0} appears {1}x in row {2}",
                        <<s, StrOf(row_occurrences), StrOf(row + 1)>>)
        ELSE IF sq_occurrences > 1
             THEN Raise("{0} appears {1}x in a square",
                        <<s, StrOf(sq_occurrences)>>)
        ELSE Ok

\* ValidateCell that reports the column by its 0-based index
ValidateCell_ZeroBased(chars, ndx) ==
    LET s == chars[ndx + 1]
        row == ndx \div 9
        col == ndx % 9
        row_occurrences == Occurrences(RowSlice(chars, row), s)
        col_occurrences == Occurrences(ColSlice(chars, col), s)
        sq_occurrences == Occurrences(SquareSlice(chars, row, col), s)
    IN  IF s \notin ClueChars THEN Ok
        ELSE IF row_occurrences > 1
             THEN Raise("{0} appears {1}x in row {2}",
                        <<s, StrOf(row_occurrences), StrOf(row + 1)>>)
        ELSE IF col_occurrences > 1
             THEN Raise("{0} appears {1}x in col {2}",
                        <<s, StrOf(col_occurrences), StrOf(col)>>)
        ELSE IF sq_occurrences > 1
             THEN Raise("{0} appears {1}x in a square",
                        <<s, StrOf(sq_occurrences)>>)
        ELSE Ok

\* one iteration of validate's loop: the error it raises, or Ok
ValidateCell(chars, ndx) ==
    LET s == chars[ndx + 1]
        row == ndx \div 9
        col == ndx % 9
        row_occurrences == Occurrences(RowSlice(chars, row), s)
        col_occurrences == Occurrences(ColSlice(chars, col), s)
        sq_occurrences == Occurrences(SquareSlice(chars, row, col), s)
    IN  IF s \notin ClueChars THEN Ok
        ELSE IF row_occurrences > 1
             THEN Raise("{0} appears {1}x in row {2}",
                        <<s, StrOf(row_occurrences), StrOf(row + 1)>>)
        ELSE IF col_occurrences > 1
             THEN Raise("{0} appears {1}x in col {2}",
                        <<s, StrOf(col_occurrences), StrOf(col + 1)>>)
        ELSE IF sq_occurrences > 1
             THEN Raise("{0} appears {1}x in a square",
                        <<s, StrOf(sq_occurrences)>>)
        ELSE Ok

RECURSIVE ValidateFrom(_, _)
\* validate's loop from index ndx on
ValidateFrom(chars, ndx) ==
    IF ndx >= Len(chars) THEN Ok
    ELSE LET r == ValidateCell(chars, ndx)
         IN  IF r.raised THEN r ELSE ValidateFrom(chars, ndx + 1)

validate(s) ==
    IF s.type # "str"
    THEN Raise("Input must be an 81-character string", <<>>)
    ELSE IF Len(s.chars) = 0 \/ Len(s.chars) # 81
    THEN Raise("Input length is {0}. Expecting 81 characters",
               <<StrOf(Len(s.chars))>>)
    ELSE ValidateFrom(s.chars, 0)

\* str.isdigit
isdigit(chars) ==
    Len(chars) > 0 /\ \A k \in 1..Len(chars) : chars[k] \in DecimalChars

----------------------------------------------------------------------------
(* str_to_grid *)

\* str_to_grid with set(range(1, 9)) for the unclued cells
str_to_grid_Range8(chars, fill_possibilities) ==
    LET possibilities == IF fill_possibilities THEN 1..8 ELSE {}
    IN  [ndx \in Cells |->
            IF chars[ndx + 1] \in ClueChars
            THEN {IntOf(chars[ndx + 1])}
            ELSE possibilities]

str_to_grid(chars, fill_possibilities) ==
    LET possibilities == IF fill_possibilities THEN AllDigits ELSE {}
    IN  [ndx \in Cells |->
            IF chars[ndx + 1] \in ClueChars
            THEN {IntOf(chars[ndx + 1])}
            ELSE possibilities]

----------------------------------------------------------------------------
(* eliminate *)

SetResult(S) == [kind |-> "set", val |-> S]

FalseResult == [kind |-> "False", val |-> {}]

\* a test "results is False" in place of "not results"
NotResults_IsFalse(results) == results.kind = "False"

\* "not results" for what eliminate returns: False, or an empty set
NotResults(results) == results.kind = "False" \/ results.val = {}

UnionOf(grid, cells) == UNION {grid[v] : v \in cells}

RECURSIVE Uniqueness(_, _, _, _)
\* the loop "for uniqueness in [0, 1, 2]" from group u (1..3) on
Uniqueness(grid, cell, possibilities, u) ==
    IF u > 3 THEN SetResult(possibilities)
    ELSE LET adjacent_values == UnionOf(grid, Range(adjacents[cell][u]))
             unique_values == possibilities \ adjacent_values
         IN  IF Cardinality(unique_values) = 1 THEN SetResult(unique_values)
             ELSE IF AllDigits # (adjacent_values \cup possibilities)
                  THEN FalseResult
             ELSE Uniqueness(grid, cell, possibilities, u + 1)

\* possibilities minus the digits of the solved adjacents
SolvedRemoved(grid, cell, possibilities) ==
    LET cell_adjacents == adjacents[cell][1] \o adjacents[cell][2]
                          \o adjacents[cell][3]
        solved_adjacents == {v \in Range(cell_adjacents) :
                                Cardinality(grid[v]) = 1}
    IN  IF solved_adjacents # {}
        THEN possibilities \ UnionOf(grid, solved_adjacents)
        ELSE possibilities

eliminate(grid, cell) ==
    LET possibilities == grid[cell]
        new_possibilities == SolvedRemoved(grid, cell, possibilities)
    IN  IF Cardinality(possibilities) = 1 THEN SetResult(possibilities)
        ELSE IF Cardinality(new_possibilities) = 1
             THEN SetResult(new_possibilities)
        ELSE Uniqueness(grid, cell, new_possibilities, 1)

----------------------------------------------------------------------------
(* reduce_grid *)

RECURSIVE ReduceScan(_, _)
\* reduce_grid's loop from cell on, up to the point where it leaves the
\* straight scan: [kind |-> "False"], [kind |-> "store", cell, val] when it
\* assigns grid[cell] and restarts from cell 0, or [kind |-> "end"] at 81
ReduceScan(grid, cell) ==
    IF cell >= 81 THEN [kind |-> "end", cell |-> cell, val |-> {}]
    ELSE LET n == Cardinality(grid[cell])
             results == eliminate(grid, cell)
         IN  IF n > 1
             THEN IF NotResults(results)
                  THEN [kind |-> "False", cell |-> cell, val |-> {}]
                  ELSE IF Cardinality(results.val) < n
                  THEN [kind |-> "store", cell |-> cell, val |-> results.val]
                  ELSE ReduceScan(grid, cell + 1)
             ELSE ReduceScan(grid, cell + 1)

----------------------------------------------------------------------------
(* search *)

RECURSIVE MinCellFrom(_, _, _)
\* the loop "for cell in range(0, 81)" that picks min_cell
MinCellFrom(grid, cell, min_cell) ==
    IF cell >= 81 THEN min_cell
    ELSE LET possibilities == Cardinality(grid[cell])
         IN  IF possibilities > 1
                /\ (NotTruthy(min_cell)
                    \/ possibilities < Cardinality(grid[min_cell]))
             THEN MinCellFrom(grid, cell + 1, cell)
             ELSE MinCellFrom(grid, cell + 1, min_cell)

RECURSIVE Orderings(_)
\* every sequence that lists the elements of S once each
Orderings(S) ==
    IF S = {} THEN {<<>>}
    ELSE UNION {{<<x>> \o p : p \in Orderings(S \ {x})} : x \in S}

\* list(a_set): the elements in the set's iteration order
ListOfSet(S) == Orderings(S)

\* random.shuffle(l)
Shuffle(l) == Orderings(Range(l))

\* an alias of the dict instead of a copy
GridCopy_Alias(h, addr) == [heap |-> h, addr |-> addr]

\* grid.copy(): a new dict with the same items
GridCopy(h, addr) == [heap |-> Append(h, h[addr]), addr |-> Len(h) + 1]

\* grid_to_str with range(0, 80)
GridToStrRange_80 == 81 - 1

\* the bound of grid_to_str's range(0, 81)
GridToStrRange == 81

FalseValue == [kind |-> "False", addr |-> 0]

GridValue(addr) == [kind |-> "grid", addr |-> addr]

NoValue == [kind |-> "none", addr |-> 0]

Frame(grid, depth) ==
    [pc |-> "enter", grid |-> grid, depth |-> depth, min_cell |-> None,
     possibilities |-> <<>>, i |-> 0]

Top == stack[Len(stack)]

SetTop(f) == [stack EXCEPT ![Len(stack)] = f]

NoOutcome ==
    [kind |-> "none", exc |-> "", template |-> "", args |-> <<>>,
     str |-> <<>>, bool |-> FALSE]

RaiseOutcome(exc, template, args) ==
    [kind |-> "raise", exc |-> exc, template |-> template, args |-> args,
     str |-> <<>>, bool |-> FALSE]

ReturnStr(chars) ==
    [kind |-> "return_str", exc |-> "", template |-> "", args |-> <<>>,
     str |-> chars, bool |-> FALSE]

ReturnBool(b) ==
    [kind |-> "return_bool", exc |-> "", template |-> "", args |-> <<>>,
     str |-> <<>>, bool |-> b]

----------------------------------------------------------------------------
(* fixtures of test_sudoku.py *)

good_input ==
    <<".", "1", ".", ".", ".", "8", ".", ".", ".">> \o
    <<"3", ".", "4", "7", "2", "1", "6", "9", ".">> \o
    <<".", ".", "6", ".", ".", ".", ".", "1", ".">> \o
    <<".", ".", ".", "9", ".", "2", "5", "3", ".">> \o
    <<".", "4", "2", "1", ".", "3", "7", "8", ".">> \o
    <<".", "3", "5", "8", ".", "6", ".", ".", ".">> \o
    <<".", "9", ".", ".", ".", ".", "1", ".", ".">> \o
    <<".", "2", "1", "3", "8", "7", "4", ".", "9">> \o
    <<".", ".", ".", "5", ".", ".", ".", "2", ".">>

expected_sol ==
    <<"7", "1", "9", "6", "3", "8", "2", "5", "4">> \o
    <<"3", "5", "4", "7", "2", "1", "6", "9", "8">> \o
    <<"2", "8", "6", "4", "9", "5", "3", "1", "7">> \o
    <<"6", "7", "8", "9", "4", "2", "5", "3", "1">> \o
    <<"9", "4", "2", "1", "5", "3", "7", "8", "6">> \o
    <<"1", "3", "5", "8", "7", "6", "9", "4", "2">> \o
    <<"8", "9", "3", "2", "6", "4", "1", "7", "5">> \o
    <<"5", "2", "1", "3", "8", "7", "4", "6", "9">> \o
    <<"4", "6", "7", "5", "1", "9", "8", "2", "3">>

silly_input ==
    <<".", "1", "A", "A", "A", "8", "b", "b", "b">> \o
    <<"3", ".", "4", "7", "2", "1", "6", "9", ".">> \o
    <<".", ".", "6", ".", ".", ".", ".", "1", ".">> \o
    <<".", ".", ".", "9", "c", "2", "5", "3", ".">> \o
    <<".", "4", "2", "1", ".", "3", "7", "8", ".">> \o
    <<".", "3", "5", "8", ".", "6", ".", ".", ".">> \o
    <<".", "9", ".", ".", ".", ".", "1", ".", ".">> \o
    <<".", "2", "1", "3", "8", "7", "4", ".", "9">> \o
    <<".", ".", ".", "5", ".", ".", ".", "2", ".">>

----------------------------------------------------------------------------
(* the inputs of solve *)

\* the digits whose cells are blanked in expected_sol
DigitPool == {"1", "4", "7"}

MaxBlankDigits == 3

\* the cells overwritten, and the characters written there
EditCells == {0, 10, 25}

EditChars == {"1"}

MaxEdits == 2

\* chars with every clue in D replaced by the blank marker
BlankDigits(chars, D) ==
    [k \in 1..Len(chars) |-> IF chars[k] \in D THEN "." ELSE chars[k]]

\* chars with the cells of DOMAIN e overwritten by e
Edit(chars, e) ==
    [k \in 1..Len(chars) |-> IF (k - 1) \in DOMAIN e THEN e[k - 1] ELSE chars[k]]

Edits ==
    UNION {[C -> EditChars] : C \in {X \in SUBSET EditCells : Cardinality(X) <= MaxEdits}}

Puzzles ==
    {Edit(BlankDigits(expected_sol, D), e) :
        D \in {X \in SUBSET DigitPool : Cardinality(X) <= MaxBlankDigits},
        e \in Edits}

SolveInputs ==
    {PyStr(good_input), PyStr(silly_input), PyStr(<<>>), PyNone}
        \cup {PyStr(p) : p \in Puzzles}

Init ==
    /\ op = "solve"
    /\ sudoku \in SolveInputs
    /\ randomize_traversal \in BOOLEAN
    /\ pc = "validate"
    /\ heap = <<>>
    /\ stack = <<>>
    /\ ret = NoValue
    /\ max_depth = 0
    /\ out = <<>>
    /\ outcome = NoOutcome

----------------------------------------------------------------------------
(* solve *)

\* solve, line 316: validate(sudoku)
SolveValidate ==
    /\ op = "solve" /\ pc = "validate"
    /\ LET r == validate(sudoku)
       IN  IF r.raised
           THEN /\ outcome' = RaiseOutcome("InvalidSudokuError", r.template, r.args)
                /\ pc' = "done"
           ELSE /\ outcome' = outcome
                /\ pc' = "str_to_grid"
    /\ UNCHANGED <<op, sudoku, randomize_traversal, heap, stack, ret,
                   max_depth, out>>

\* solve, lines 318-319: build the grid and call search on it
SolveStrToGrid ==
    /\ pc = "str_to_grid"
    /\ heap' = <<str_to_grid(sudoku.chars, TRUE)>>
    /\ stack' = <<Frame(1, 0)>>
    /\ pc' = "search"
    /\ UNCHANGED <<op, sudoku, randomize_traversal, ret, max_depth, out,
                   outcome>>

\* search, lines 256-263: the depth counter and the cutoff
SearchEnter ==
    /\ pc = "search" /\ stack # <<>> /\ Top.pc = "enter"
    /\ max_depth' = Max(max_depth, Top.depth)
    /\ IF max_depth' > 81
       THEN /\ stack' = SubSeq(stack, 1, Len(stack) - 1)
            /\ ret' = FalseValue
       ELSE /\ stack' = SetTop([Top EXCEPT !.pc = "reduce"])
            /\ ret' = ret
    /\ UNCHANGED <<op, sudoku, randomize_traversal, pc, heap, out, outcome>>

\* search, lines 266-270 with reduce_grid, lines 231-250: one scan of
\* reduce_grid's loop from cell 0, up to the assignment that restarts it,
\* the failure, or the end of the loop
ReducePass ==
    /\ pc = "search" /\ stack # <<>> /\ Top.pc = "reduce"
    /\ LET r == ReduceScan(heap[Top.grid], 0)
       IN  CASE r.kind = "False" ->
                  /\ stack' = SubSeq(stack, 1, Len(stack) - 1)
                  /\ ret' = FalseValue
                  /\ heap' = heap
             [] r.kind = "store" ->
                  /\ heap' = [heap EXCEPT ![Top.grid][r.cell] = r.val]
                  /\ UNCHANGED <<stack, ret>>
             [] r.kind = "end" ->
                  /\ stack' = SetTop([Top EXCEPT !.pc = "select"])
                  /\ UNCHANGED <<heap, ret>>
    /\ UNCHANGED <<op, sudoku, randomize_traversal, pc, max_depth, out,
                   outcome>>

\* search, lines 276-292: pick min_cell; return the grid when there is
\* none, else list (and shuffle) its possibilities
SelectCell ==
    /\ pc = "search" /\ stack # <<>> /\ Top.pc = "select"
    /\ LET min_cell == MinCellFrom(heap[Top.grid], 0, None)
       IN  IF NotTruthy(min_cell)
           THEN /\ stack' = SubSeq(stack, 1, Len(stack) - 1)
                /\ ret' = GridValue(Top.grid)
           ELSE /\ \E l \in ListOfSet(heap[Top.grid][min_cell]) :
                   \E possibilities \in
                         (IF randomize_traversal THEN Shuffle(l) ELSE {l}) :
                      stack' = SetTop([Top EXCEPT !.pc = "loop",
                                                  !.min_cell = min_cell,
                                                  !.possibilities = possibilities,
                                                  !.i = 1])
                /\ ret' = ret
    /\ UNCHANGED <<op, sudoku, randomize_traversal, pc, heap, max_depth, out,
                   outcome>>

\* search with the assignment of line 296 left out: the child gets the
\* copy as it is
BranchCall_Unassigned ==
    /\ pc = "search" /\ stack # <<>> /\ Top.pc = "loop"
    /\ Top.i <= Len(Top.possibilities)
    /\ LET c == GridCopy(heap, Top.grid)
       IN  /\ heap' = c.heap
           /\ stack' = Append(SetTop([Top EXCEPT !.pc = "wait"]),
                              Frame(c.addr, Top.depth + 1))
    /\ UNCHANGED <<op, sudoku, randomize_traversal, pc, ret, max_depth, out,
                   outcome>>

\* search, lines 294-298: the next possibility: copy the grid, fix min_cell
\* to it and call search on the copy
BranchCall ==
    /\ pc = "search" /\ stack # <<>> /\ Top.pc = "loop"
    /\ Top.i <= Len(Top.possibilities)
    /\ LET p == Top.possibilities[Top.i]
           c == GridCopy(heap, Top.grid)
       IN  /\ heap' = [c.heap EXCEPT ![c.addr][Top.min_cell] = {p}]
           /\ stack' = Append(SetTop([Top EXCEPT !.pc = "wait"]),
                              Frame(c.addr, Top.depth + 1))
    /\ UNCHANGED <<op, sudoku, randomize_traversal, pc, ret, max_depth, out,
                   outcome>>

\* BranchReturn with "return False" inside the for loop
BranchReturn_ReturnInLoop ==
    /\ pc = "search" /\ stack # <<>> /\ Top.pc = "wait"
    /\ stack' = SubSeq(stack, 1, Len(stack) - 1)
    /\ ret' = IF ret.kind = "grid" THEN ret ELSE FalseValue
    /\ UNCHANGED <<op, sudoku, randomize_traversal, pc, heap, max_depth, out,
                   outcome>>

\* search, lines 300-302: the child returned: return its result when it is
\* truthy, else go on with the next possibility
BranchReturn ==
    /\ pc = "search" /\ stack # <<>> /\ Top.pc = "wait"
    /\ IF ret.kind = "grid"
       THEN /\ stack' = SubSeq(stack, 1, Len(stack) - 1)
            /\ ret' = ret
       ELSE /\ stack' = SetTop([Top EXCEPT !.pc = "loop", !.i = Top.i + 1])
            /\ ret' = NoValue
    /\ UNCHANGED <<op, sudoku, randomize_traversal, pc, heap, max_depth, out,
                   outcome>>

\* search, line 304: every possibility failed
BranchExhausted ==
    /\ pc = "search" /\ stack # <<>> /\ Top.pc = "loop"
    /\ Top.i > Len(Top.possibilities)
    /\ stack' = SubSeq(stack, 1, Len(stack) - 1)
    /\ ret' = FalseValue
    /\ UNCHANGED <<op, sudoku, randomize_traversal, pc, heap, max_depth, out,
                   outcome>>

\* solve, line 319: search returned to solve, grid_to_str starts
SearchReturned ==
    /\ pc = "search" /\ stack = <<>>
    /\ pc' = "grid_to_str"
    /\ UNCHANGED <<op, sudoku, randomize_traversal, heap, stack, ret,
                   max_depth, out, outcome>>

\* grid_to_str, line 42: one item of the generator: grid[ndx].pop()
GridToStrStep ==
    /\ pc = "grid_to_str" /\ Len(out) < GridToStrRange
    /\ LET ndx == Len(out)
       IN  IF ret.kind # "grid"
           THEN /\ outcome' = RaiseOutcome("TypeError",
                                  "'bool' object has no attribute '__getitem__'", <<>>)
                /\ pc' = "done"
                /\ UNCHANGED <<heap, out>>
           ELSE IF heap[ret.addr][ndx] = {}
           THEN /\ outcome' = RaiseOutcome("KeyError", "pop from an empty set", <<>>)
                /\ pc' = "done"
                /\ UNCHANGED <<heap, out>>
           ELSE \E d \in heap[ret.addr][ndx] :
                  /\ heap' = [heap EXCEPT ![ret.addr][ndx] = @ \ {d}]
                  /\ out' = Append(out, StrOf(d))
                  /\ UNCHANGED <<pc, outcome>>
    /\ UNCHANGED <<op, sudoku, randomize_traversal, stack, ret, max_depth>>

\* grid_to_str, line 42, and solve, line 319: the join is complete
SolveReturn ==
    /\ pc = "grid_to_str" /\ Len(out) = GridToStrRange
    /\ outcome' = ReturnStr(out)
    /\ pc' = "done"
    /\ UNCHANGED <<op, sudoku, randomize_traversal, heap, stack, ret,
                   max_depth, out>>

Next ==
    \/ SolveValidate
    \/ SolveStrToGrid
    \/ SearchEnter
    \/ ReducePass
    \/ SelectCell
    \/ BranchCall
    \/ BranchReturn
    \/ BranchExhausted
    \/ SearchReturned
    \/ GridToStrStep
    \/ SolveReturn

Spec == Init /\ [][Next]_vars

----------------------------------------------------------------------------
(* validate and is_solved called on their own *)

\* the cells overwritten in the inputs of validate, and the characters
\* written there
ValidateCells == {0, 3, 8, 9, 10, 27, 70, 72, 80}

ValidateChars == {"1", "2", "0"}

MaxClues == 2

ValidateLengths == {0, 80, 81, 82}

BlankPuzzle == [k \in 1..81 |-> "."]

ValidateBases == {expected_sol, BlankPuzzle, good_input}

\* chars cut or padded to length n
Resize(chars, n) ==
    [k \in 1..n |-> IF k <= Len(chars) THEN chars[k] ELSE "."]

ValidateEdits ==
    UNION {[C -> ValidateChars] :
              C \in {X \in SUBSET ValidateCells : Cardinality(X) <= MaxClues}}

ValidateInputs ==
    {PyNone, PyInt}
        \cup {PyStr(Resize(Edit(b, e), n)) :
                  b \in ValidateBases, e \in ValidateEdits, n \in ValidateLengths}

InitValidate ==
    /\ op \in {"validate", "is_solved"}
    /\ sudoku \in ValidateInputs
    /\ randomize_traversal = FALSE
    /\ pc = "validate"
    /\ heap = <<>>
    /\ stack = <<>>
    /\ ret = NoValue
    /\ max_depth = 0
    /\ out = <<>>
    /\ outcome = NoOutcome

\* validate, lines 118-162
CallValidate ==
    /\ op = "validate" /\ pc = "validate"
    /\ LET r == validate(sudoku)
       IN  outcome' = IF r.raised
                      THEN RaiseOutcome("InvalidSudokuError", r.template, r.args)
                      ELSE ReturnBool(TRUE)
    /\ pc' = "done"
    /\ UNCHANGED <<op, sudoku, randomize_traversal, heap, stack, ret,
                   max_depth, out>>

\* is_solved, lines 105-115
CallIsSolved ==
    /\ op = "is_solved" /\ pc = "validate"
    /\ LET r == validate(sudoku)
       IN  outcome' = IF r.raised
                      THEN RaiseOutcome("InvalidSudokuError", r.template, r.args)
                      ELSE ReturnBool(isdigit(sudoku.chars))
    /\ pc' = "done"
    /\ UNCHANGED <<op, sudoku, randomize_traversal, heap, stack, ret,
                   max_depth, out>>

NextValidate == CallValidate \/ CallIsSolved

SpecValidate == InitValidate /\ [][NextValidate]_vars

----------------------------------------------------------------------------
(* vocabulary of the properties *)

RowOf(c) == c \div 9

ColOf(c) == c % 9

BoxOf(c) == (c \div 27) * 3 + ((c % 9) \div 3)

\* the 27 groups: nine rows, nine columns, nine boxes
Units ==
    {{c \in Cells : RowOf(c) = i} : i \in 0..8}
        \cup {{c \in Cells : ColOf(c) = i} : i \in 0..8}
        \cup {{c \in Cells : BoxOf(c) = i} : i \in 0..8}

\* 81 characters, each a digit 1-9, every group holding every digit
IsCompleteSolution(chars) ==
    /\ Len(chars) = 81
    /\ \A k \in 1..81 : chars[k] \in ClueChars
    /\ \A U \in Units : {chars[c + 1] : c \in U} = ClueChars

\* sol has every clue of puzzle at its position
Agrees(puzzle, sol) ==
    /\ Len(puzzle) = Len(sol)
    /\ \A k \in 1..Len(puzzle) : puzzle[k] \in ClueChars => sol[k] = puzzle[k]

\* the bijections of DigitPool
Relabelings ==
    {f \in [DigitPool -> DigitPool] : \A a, b \in DigitPool : f[a] = f[b] => a = b}

\* expected_sol, and expected_sol with the digits of DigitPool exchanged:
\* complete solutions known without running the solver
KnownSolutions ==
    {[k \in 1..81 |-> IF expected_sol[k] \in DigitPool
                       THEN f[expected_sol[k]] ELSE expected_sol[k]] :
        f \in Relabelings}

\* puzzle has expected_sol as its only solution: it is one of the test's
\* two fixtures, or what it leaves open in expected_sol is one digit
OnlyExpectedSol(puzzle) ==
    \/ puzzle \in {good_input, silly_input}
    \/ /\ Agrees(puzzle, expected_sol)
       /\ Cardinality({expected_sol[k] : k \in {j \in 1..81 : puzzle[j] \notin ClueChars}}) <= 1

\* the clues seen from cell c: the clue characters of the other cells of
\* its row, column and box
PeerClues(chars, c) ==
    {chars[d + 1] : d \in {e \in Cells : /\ e # c
                                         /\ \/ RowOf(e) = RowOf(c)
                                            \/ ColOf(e) = ColOf(c)
                                            \/ BoxOf(e) = BoxOf(c)}}
        \cap ClueChars

\* a sufficient reason for a puzzle to have no solution: an unclued cell
\* sees all nine digits
EvidentlyUnsolvable(chars) ==
    \E c \in Cells : chars[c + 1] \notin ClueChars /\ PeerClues(chars, c) = ClueChars

SolveDone == op = "solve" /\ pc = "done"

ValidPuzzle == sudoku.type = "str" /\ ~validate(sudoku).raised

----------------------------------------------------------------------------
(* the properties *)

\* C1: whenever solve returns a string for a structurally valid puzzle,
\* with randomize on or off, the string has 81 characters, each a digit
\* 1-9, and every row, column and box holds each digit exactly once
C1_SolvedOutputIsValid ==
    (SolveDone /\ outcome.kind = "return_str")
        => /\ ValidPuzzle
           /\ IsCompleteSolution(outcome.str)

\* a solve with randomize on that had to branch has returned a string
C1_Witness ==
    /\ SolveDone /\ outcome.kind = "return_str"
    /\ randomize_traversal
    /\ Len(heap) > 1

\* C2: for a valid puzzle that has a solution, solve returns a string, never
\* the failure; the string is a solution that keeps every clue of the
\* input, and it is the solution when the puzzle has only one
C2_SolvablePuzzleIsSolved ==
    (SolveDone /\ ValidPuzzle /\ \E sol \in KnownSolutions : Agrees(sudoku.chars, sol))
        => /\ outcome.kind = "return_str"
           /\ IsCompleteSolution(outcome.str)
           /\ Agrees(sudoku.chars, outcome.str)
           /\ OnlyExpectedSol(sudoku.chars) => outcome.str = expected_sol

\* a puzzle with several solutions was solved after a branch of the search
\* had failed
C2_Witness ==
    /\ SolveDone /\ outcome.kind = "return_str"
    /\ \E sol \in KnownSolutions : Agrees(sudoku.chars, sol)
    /\ ~OnlyExpectedSol(sudoku.chars)
    /\ Len(heap) > max_depth + 1

\* the test's fixture with letters in blank cells was solved
C2_WitnessFixture ==
    SolveDone /\ sudoku.chars = silly_input /\ outcome.str = expected_sol

\* C3: for a valid puzzle without a solution, solve returns the "no
\* solution" value as a normal result and raises nothing
C3_NoSolutionIsReturned ==
    (SolveDone /\ ValidPuzzle /\ EvidentlyUnsolvable(sudoku.chars))
        => outcome.kind # "raise"

----------------------------------------------------------------------------
(* the properties of validate and is_solved *)

GroupKinds == <<"row", "col", "square">>

GroupOf(kind, c) ==
    CASE kind = "row" -> RowOf(c)
      [] kind = "col" -> ColOf(c)
      [] kind = "square" -> BoxOf(c)

GroupTable ==
    [k \in 1..3 |->
        [c \in Cells |->
            {e \in Cells : GroupOf(GroupKinds[k], e) = GroupOf(GroupKinds[k], c)}]]

\* the cells of the group of the given kind that holds cell c
GroupCells(kind, c) ==
    GroupTable[CHOOSE k \in 1..3 : GroupKinds[k] = kind][c]

\* the clue of cell c occurs once more in its group of the given kind
ConflictAt(chars, c, kind) ==
    /\ chars[c + 1] \in ClueChars
    /\ \E e \in GroupCells(kind, c) \ {c} : chars[e + 1] = chars[c + 1]

ConflictCells(chars) ==
    {c \in Cells : \E k \in 1..3 : ConflictAt(chars, c, GroupKinds[k])}

\* the first failing check: the lowest conflicting cell and, for it, the
\* first kind of group in the order row, column, box
FirstConflict(chars) ==
    LET bad == ConflictCells(chars)
        c == CHOOSE x \in bad : \A y \in bad : x <= y
        k == CHOOSE i \in 1..3 :
                 /\ ConflictAt(chars, c, GroupKinds[i])
                 /\ \A j \in 1..(i - 1) : ~ConflictAt(chars, c, GroupKinds[j])
    IN  [cell |-> c, kind |-> GroupKinds[k]]

\* how often the clue of cell c occurs in its group of the given kind
CountIn(chars, c, kind) ==
    Cardinality({e \in GroupCells(kind, c) : chars[e + 1] = chars[c + 1]})

LengthTemplate == "Input length is {0}. Expecting 81 characters"

ConflictTemplate(kind) ==
    CASE kind = "row" -> "{0} appears {1}x in row {2}"
      [] kind = "col" -> "{0} appears {1}x in col {2}"
      [] kind = "square" -> "{0} appears {1}x in a square"

ConflictTemplates == {ConflictTemplate(GroupKinds[k]) : k \in 1..3}

ValidateDone == op = "validate" /\ pc = "done" /\ sudoku.type = "str"

ConflictRaised ==
    /\ ValidateDone
    /\ outcome.kind = "raise"
    /\ outcome.template \in ConflictTemplates

\* C4: validate raises for the first failing check in a fixed order: the
\* length first, reported with the actual length; then the clued cells in
\* index order and, for each, its row, then its column, then its box.  It
\* succeeds exactly when the length is 81 and no clue occurs twice in a
\* row, column or box
C4_ValidateFirstFailure ==
    ValidateDone =>
        LET chars == sudoku.chars
        IN  IF Len(chars) # 81
            THEN outcome = RaiseOutcome("InvalidSudokuError", LengthTemplate,
                                        <<StrOf(Len(chars))>>)
            ELSE IF ConflictCells(chars) = {}
            THEN outcome = ReturnBool(TRUE)
            ELSE LET f == FirstConflict(chars)
                 IN  /\ outcome.kind = "raise"
                     /\ outcome.exc = "InvalidSudokuError"
                     /\ outcome.template = ConflictTemplate(f.kind)
                     /\ outcome.args[1] = chars[f.cell + 1]

\* validate reported a column conflict of the first conflicting cell while
\* a later cell has a conflict in its row
C4_Witness ==
    /\ ConflictRaised
    /\ outcome.template = ConflictTemplate("col")
    /\ LET f == FirstConflict(sudoku.chars)
       IN  \E c \in Cells : c > f.cell /\ ConflictAt(sudoku.chars, c, "row")

\* validate reported the length of an 82-character string that also has a
\* conflict among its first 81 characters
C4_WitnessLength ==
    /\ ValidateDone
    /\ outcome.template = LengthTemplate
    /\ Len(sudoku.chars) = 82
    /\ ConflictCells(sudoku.chars) # {}

\* C5 as stated: every conflict error carries the digit, its number of
\* occurrences in the offending group, the kind of the group and the
\* 1-based index of the group, for rows, columns and boxes alike
C5_ConflictCarriesIndex ==
    ConflictRaised =>
        LET f == FirstConflict(sudoku.chars)
        IN  /\ outcome.template = ConflictTemplate(f.kind)
            /\ outcome.args = <<sudoku.chars[f.cell + 1],
                                StrOf(CountIn(sudoku.chars, f.cell, f.kind)),
                                StrOf(GroupOf(f.kind, f.cell) + 1)>>

\* C5 amended: every conflict error carries the digit, its number of
\* occurrences in the offending group and the kind of the group; a row or
\* column conflict also carries the 1-based index of the row or column, a
\* box conflict carries no index
C5_ConflictCarries ==
    ConflictRaised =>
        LET f == FirstConflict(sudoku.chars)
            digit == sudoku.chars[f.cell + 1]
            count == StrOf(CountIn(sudoku.chars, f.cell, f.kind))
        IN  /\ outcome.template = ConflictTemplate(f.kind)
            /\ outcome.args =
                  IF f.kind = "square"
                  THEN <<digit, count>>
                  ELSE <<digit, count, StrOf(GroupOf(f.kind, f.cell) + 1)>>

\* a box conflict was reported, in a box other than the first
C5_Witness ==
    /\ ConflictRaised
    /\ outcome.template = ConflictTemplate("square")
    /\ BoxOf(FirstConflict(sudoku.chars).cell) > 0

\* a column conflict with three occurrences was reported
C5_WitnessCount ==
    /\ ConflictRaised
    /\ outcome.template = ConflictTemplate("col")
    /\ outcome.args[2] = "3"

\* C6: is_solved raises validate's error for an invalid input; for a valid
\* input it returns True exactly when every one of the 81 cells holds a
\* clue digit 1-9
C6_IsSolvedIffAllClues ==
    (op = "is_solved" /\ pc = "done") =>
        IF validate(sudoku).raised
        THEN outcome = RaiseOutcome("InvalidSudokuError",
                           validate(sudoku).template, validate(sudoku).args)
        ELSE outcome = ReturnBool(\A k \in 1..81 : sudoku.chars[k] \in ClueChars)

----------------------------------------------------------------------------
(* the properties of search *)

Unsolved(grid) == {c \in Cells : Cardinality(grid[c]) > 1}

\* the unsolved cell with the fewest candidates, the lowest index among ties
FirstMinimum(grid) ==
    CHOOSE c \in Unsolved(grid) :
        \A d \in Unsolved(grid) :
            \/ Cardinality(grid[c]) < Cardinality(grid[d])
            \/ Cardinality(grid[c]) = Cardinality(grid[d]) /\ c <= d

\* the activation record is in the loop over the possibilities of min_cell
Branching(f) == f.pc \in {"loop", "wait"}

\* l lists the elements of S once each
IsListing(l, S) ==
    /\ Len(l) = Cardinality(S)
    /\ Range(l) = S

IsAscending(l) == \A j \in 1..(Len(l) - 1) : l[j] < l[j + 1]

\* C7: the branching cell is, over all cell indices 0..80, an unsolved cell
\* with the fewest candidates and, among the cells tied for that minimum,
\* the one with the lowest index
C7_BranchingCellIsFirstMinimum ==
    \A k \in 1..Len(stack) :
        Branching(stack[k]) => stack[k].min_cell = FirstMinimum(heap[stack[k].grid])

\* C8 as stated: with randomized traversal off, the candidates of the
\* branching cell are tried in ascending numeric order
C8_AscendingOrder ==
    \A k \in 1..Len(stack) :
        (Branching(stack[k]) /\ ~randomize_traversal)
            => /\ IsListing(stack[k].possibilities,
                            heap[stack[k].grid][stack[k].min_cell])
               /\ IsAscending(stack[k].possibilities)

\* C8 amended: with randomized traversal off, search tries the candidates
\* of the branching cell once each, in the order in which list() enumerates
\* the candidate set (which need not be ascending), one child call per
\* candidate; it returns the result of the first candidate whose branch
\* succeeds without trying the later ones, and returns failure only after
\* the branch of every candidate has failed
C8_FirstSuccessInListOrder ==
    [][(pc = "search" /\ stack # <<>> /\ Branching(Top) /\ ~randomize_traversal) =>
        LET f == Top
            n == Len(stack)
            last == Len(f.possibilities)
        IN  /\ IsListing(f.possibilities, heap[f.grid][f.min_cell])
            /\ f.i \in 1..(last + 1)
            /\ (f.pc = "loop" /\ f.i <= last) =>
                  /\ Len(stack') = n + 1
                  /\ stack'[n] = [f EXCEPT !.pc = "wait"]
                  /\ heap'[stack'[n + 1].grid][f.min_cell] = {f.possibilities[f.i]}
            /\ (f.pc = "wait" /\ ret.kind = "grid") =>
                  /\ stack' = SubSeq(stack, 1, n - 1)
                  /\ ret' = ret
            /\ (f.pc = "wait" /\ ret.kind # "grid") =>
                  stack' = SetTop([f EXCEPT !.pc = "loop", !.i = f.i + 1])
            /\ (Len(stack') < n /\ ret'.kind = "False") =>
                  f.pc = "loop" /\ f.i = last + 1
      ]_vars

\* with randomized traversal off, a search returned the grid of its second
\* candidate after the branch of the first one had failed
C8_Witness ==
    /\ pc = "search" /\ stack # <<>> /\ ~randomize_traversal
    /\ Top.pc = "wait" /\ Top.i = 2 /\ ret.kind = "grid"

\* with randomized traversal off, a search ran out of candidates
C8_WitnessExhausted ==
    /\ pc = "search" /\ stack # <<>> /\ ~randomize_traversal
    /\ Top.pc = "loop" /\ Top.i = Len(Top.possibilities) + 1

\* C9: each child call works on its own copy of the parent's saturated
\* grid: whatever a child assigns or eliminates, also when it fails part
\* way, the grid of every waiting parent stays as it is, and each candidate
\* starts from that saturated grid with only the branching cell fixed
C9_BranchIsolation ==
    [][/\ \A k \in 1..Len(stack) :
             stack[k].pc = "wait" => heap'[stack[k].grid] = heap[stack[k].grid]
       /\ (pc = "search" /\ stack # <<>> /\ Top.pc = "loop"
              /\ Top.i <= Len(Top.possibilities)) =>
             LET child == stack'[Len(stack')]
             IN  /\ ReduceScan(heap[Top.grid], 0).kind = "end"
                 /\ Len(stack') = Len(stack) + 1
                 /\ child.grid # Top.grid
                 /\ heap'[Top.grid] = heap[Top.grid]
                 /\ heap'[child.grid] =
                       [heap[Top.grid] EXCEPT ![Top.min_cell] = {Top.possibilities[Top.i]}]
      ]_vars

\* a child has failed after storing eliminations in its grid, and its
\* parent goes on to the next candidate
C9_Witness ==
    /\ pc = "search" /\ stack # <<>>
    /\ Top.pc = "wait" /\ ret.kind = "False"
    /\ Top.i < Len(Top.possibilities)
    /\ \E a \in (Top.grid + 1)..Len(heap) :
          \E c \in Cells \ {Top.min_cell} : heap[a][c] # heap[Top.grid][c]

\* the grids exist and search has not handed its outcome to grid_to_str
Solving == pc = "search" \/ (pc = "grid_to_str" /\ out = <<>>)

\* C10: in every grid reachable during a solve, from the grid built from
\* the puzzle until search returns, all 81 cell indices are present and no
\* cell has an empty candidate set
C10_NoEmptyCell ==
    Solving =>
        \A a \in 1..Len(heap) :
            /\ DOMAIN heap[a] = Cells
            /\ \A c \in Cells : heap[a][c] # {}

\* reduce_grid is about to fail on a cell for which eliminate returns the
\* empty set
C10_Witness ==
    /\ pc = "search" /\ stack # <<>> /\ Top.pc = "reduce"
    /\ LET r == ReduceScan(heap[Top.grid], 0)
       IN  /\ r.kind = "False"
           /\ eliminate(heap[Top.grid], r.cell) = SetResult({})

----------------------------------------------------------------------------
(* one process calling solve several times: the module-level max_depth is
   assigned only by search and keeps its value from one call of solve to
   the next *)

\* the caller has the outcome of one solve and calls solve again: the
\* locals of the call are new, the global max_depth is what search left
NextSolve ==
    /\ op = "solve" /\ pc = "done"
    /\ sudoku' \in SolveInputs
    /\ randomize_traversal' \in BOOLEAN
    /\ pc' = "validate"
    /\ heap' = <<>>
    /\ stack' = <<>>
    /\ ret' = NoValue
    /\ out' = <<>>
    /\ outcome' = NoOutcome
    /\ UNCHANGED <<op, max_depth>>

NextProcess ==
    \/ Next
    \/ NextSolve

SpecProcess == Init /\ [][NextProcess]_vars

\* the number of cells of the puzzle that hold no clue
UncluedCells(s) ==
    Cardinality({n \in 1..Len(s.chars) : s.chars[n] \notin ClueChars})

NumUnsolved(grid) == Cardinality(Unsolved(grid))

\* C11: every recursion level of search has strictly fewer unsolved cells
\* than its parent, so the depth of every call of search is at most the
\* number of unclued cells of the puzzle and never above 81; the cutoff
\* never aborts a call, whatever value max_depth kept from earlier solves:
\* every call that enters search goes on to reduce_grid
C11_DepthBounded ==
    [][/\ \A k \in 1..Len(stack) :
             /\ stack[k].depth = k - 1
             /\ stack[k].depth <= UncluedCells(sudoku)
             /\ stack[k].depth <= 81
       /\ \A k \in 2..Len(stack) :
             NumUnsolved(heap[stack[k].grid]) < NumUnsolved(heap[stack[k - 1].grid])
       /\ max_depth <= 81
       /\ (pc = "search" /\ stack # <<>> /\ Top.pc = "enter") =>
             /\ stack' = SetTop([Top EXCEPT !.pc = "reduce"])
             /\ ret' = ret
      ]_vars

\* the first call of search of a later solve enters with the max_depth an
\* earlier solve left
C11_Witness ==
    /\ pc = "search" /\ Len(stack) = 1
    /\ Top.pc = "enter" /\ Top.depth = 0
    /\ max_depth >= 2

\* a call of search two levels down, in a solve that started with
\* max_depth above that level
C11_WitnessDepth ==
    /\ pc = "search" /\ Len(stack) >= 3
    /\ Top.pc = "enter"
    /\ max_depth > Top.depth

====
